---- MODULE Spec2Model ----
(***************************************************************************)
(* Model of the community-report credibility scoring of the AirWeather    *)
(* application: src/lib/credibility.ts (the scorer) and the POST handler  *)
(* of src/app/api/reports/route.ts that triggers it.                      *)
(*                                                                         *)
(* Values.  An optional JavaScript value (undefined / null / a value) is  *)
(* the empty tuple or a one-element tuple.  A string is a sequence of     *)
(* one-character strings, so that trim() and toLowerCase() are computed.  *)
(* A coordinate is an integer number of metres of arc measured from the   *)
(* point (0 deg, 0 deg): on such a grid of a few hundred metres the       *)
(* haversine distance is the planar distance (to well below a           *)
(* millimetre), and coordinate 0 is latitude 0 / longitude 0.             *)
(*                                                                         *)
(* Specifications.  Spec: report submissions and the scorer calls they    *)
(* start.  SpecAward: concurrent calls of awardCredibilityPoint.          *)
(* SpecPure: areAdjacent and hasSameIssue applied to pairs of reports.    *)
(* SpecResponding: Spec with the POST handler going on after its insert.  *)
(* SpecNotify: the handler of /api/notifications/check.                    *)
(***************************************************************************)
EXTENDS Integers, Sequences, FiniteSets, TLC

VARIABLES
    reports,    \* the `report` table: sequence of rows, a row's id is its index
    profiles,   \* the `profiles` table: user_id -> optional credibility (Null = no row)
    posts,      \* POST /api/reports requests, in arrival order
    scorers,    \* invocations of checkAndAwardCredibility
    awards,     \* invocations of awardCredibilityPoint
    pure,       \* harness applying areAdjacent / hasSameIssue to a pair of reports
    notification_times, \* profiles.notification_times: user_id -> optional list of times
    check,      \* the request being served by /api/notifications/check
    listing,    \* the last answer of GET /api/reports
    now,        \* Date.now() of the server, in milliseconds
    requestCache, \* the chat rate limiter's map: identifier -> optional {count, resetTime}
    passed,     \* per identifier, the requests let through at the last three instants
    chat,       \* the POST /api/chat request being served
    timeReqs,   \* the requests made to /api/notifications, in order of arrival
    weatherCache, \* the weather route's map `cache`: cache key -> optional {data, timestamp}
    weather     \* GET /api/weather: the requests awaiting the fetch, the last response

vars == <<reports, profiles, posts, scorers, awards, pure, notification_times, check,
          listing, now, requestCache, passed, chat, timeReqs, weatherCache, weather>>

\* the variables of the report scorer, and those of the notification check
appVars == <<reports, profiles, posts, scorers, awards, pure>>

notifyVars == <<notification_times, check>>

listVars == <<listing>>

chatVars == <<now, requestCache, passed, chat>>

timesVars == <<timeReqs>>

weatherVars == <<weatherCache, weather>>

\* what the actions of the report scorer leave alone
exceptApp == <<notifyVars, listVars, chatVars, timesVars, weatherVars>>

\* what the actions of the notification check leave alone
exceptNotify == <<appVars, listVars, chatVars, timesVars, weatherVars>>

\* what the report listing leaves alone
exceptList == <<appVars, notifyVars, chatVars, timesVars, weatherVars>>

\* what the chat handler leaves alone
exceptChat == <<appVars, notifyVars, listVars, timesVars, weatherVars>>

\* what the handlers of /api/notifications leave alone
exceptTimes == <<appVars, check, listVars, chatVars, weatherVars>>

\* what GET /api/weather leaves alone
exceptWeather == <<appVars, notifyVars, listVars, timesVars, requestCache, passed, chat>>

----------------------------------------------------------------------------
(* Optional values and strings *)

Null == <<>>

Some(x) == <<x>>

IsNull(o) == o = Null

Val(o) == o[1]

\* JavaScript truthiness of an optional number: undefined, null and 0 are falsy.
TruthyNum(o) == ~IsNull(o) /\ Val(o) # 0

\* JavaScript truthiness of an optional string: undefined, null and "" are falsy.
TruthyStr(o) == ~IsNull(o) /\ Val(o) # <<>>

IsSpace(c) == c = " "

RECURSIVE TrimStart(_)
TrimStart(s) ==
    IF s = <<>> THEN <<>>
    ELSE IF IsSpace(Head(s)) THEN TrimStart(Tail(s)) ELSE s

RECURSIVE TrimEnd(_)
TrimEnd(s) ==
    IF s = <<>> THEN <<>>
    ELSE IF IsSpace(s[Len(s)]) THEN TrimEnd(SubSeq(s, 1, Len(s) - 1)) ELSE s

\* String.prototype.trim
Trim(s) == TrimEnd(TrimStart(s))

LowerChar(c) ==
    CASE c = "A" -> "a"
      [] c = "B" -> "b"
      [] c = "F" -> "f"
      [] c = "H" -> "h"
      [] c = "V" -> "v"
      [] OTHER -> c

\* String.prototype.toLowerCase
ToLowerCase(s) == [i \in 1..Len(s) |-> LowerChar(s[i])]

----------------------------------------------------------------------------
(* src/lib/credibility.ts: the pure helpers *)

\* the least n with n * n >= x
CeilSqrt(x) == CHOOSE n \in 0..x : n * n >= x /\ (n = 0 \/ (n - 1) * (n - 1) < x)

\* calculateDistance: the haversine distance, here in metres rounded up to a
\* whole metre (so comparing it with a whole number of metres is exact).
calculateDistance(lat1, lon1, lat2, lon2) ==
    CeilSqrt((lat2 - lat1) * (lat2 - lat1) + (lon2 - lon1) * (lon2 - lon1))

\* const ADJACENT_THRESHOLD_KM = 0.5, in metres
ADJACENT_THRESHOLD_M == 500

areAdjacent_ExclusiveBound(report1, report2) ==
    IF ~TruthyNum(report1.lat) \/ ~TruthyNum(report1.lng)
       \/ ~TruthyNum(report2.lat) \/ ~TruthyNum(report2.lng)
    THEN FALSE
    ELSE calculateDistance(Val(report1.lat), Val(report1.lng),
                           Val(report2.lat), Val(report2.lng)) < ADJACENT_THRESHOLD_M

areAdjacent_MissingIsOrigin(report1, report2) ==
    LET at(o) == IF IsNull(o) THEN 0 ELSE Val(o)
    IN  calculateDistance(at(report1.lat), at(report1.lng),
                          at(report2.lat), at(report2.lng)) <= ADJACENT_THRESHOLD_M

areAdjacent(report1, report2) ==
    IF ~TruthyNum(report1.lat) \/ ~TruthyNum(report1.lng)
       \/ ~TruthyNum(report2.lat) \/ ~TruthyNum(report2.lng)
    THEN FALSE
    ELSE calculateDistance(Val(report1.lat), Val(report1.lng),
                           Val(report2.lat), Val(report2.lng)) <= ADJACENT_THRESHOLD_M

\* hasSameIssue throws a TypeError when it reaches the problem-text fallback
\* and a problem text is null (null.trim()).
hasSameIssueThrows(report1, report2) ==
    /\ ~(TruthyStr(report1.type) /\ TruthyStr(report2.type))
    /\ (IsNull(report1.problem) \/ IsNull(report2.problem))

hasSameIssue_IgnoresCase(report1, report2) ==
    IF TruthyStr(report1.type) /\ TruthyStr(report2.type)
    THEN ToLowerCase(Val(report1.type)) = ToLowerCase(Val(report2.type))
    ELSE ToLowerCase(Trim(Val(report1.problem))) = ToLowerCase(Trim(Val(report2.problem)))

hasSameIssue_ExactProblem(report1, report2) ==
    IF TruthyStr(report1.type) /\ TruthyStr(report2.type)
    THEN Val(report1.type) = Val(report2.type)
    ELSE Val(report1.problem) = Val(report2.problem)

hasSameIssue_FirstTypeDecides(report1, report2) ==
    IF TruthyStr(report1.type)
    THEN report1.type = report2.type
    ELSE ToLowerCase(Trim(Val(report1.problem))) = ToLowerCase(Trim(Val(report2.problem)))

\* hasSameIssue, where it does not throw
hasSameIssue(report1, report2) ==
    IF TruthyStr(report1.type) /\ TruthyStr(report2.type)
    THEN Val(report1.type) = Val(report2.type)
    ELSE ToLowerCase(Trim(Val(report1.problem))) = ToLowerCase(Trim(Val(report2.problem)))

----------------------------------------------------------------------------
(* Bounds of the model *)

MaxPosts == 2        \* POST /api/reports requests

MaxRetries == 1      \* repeated invocations of checkAndAwardCredibility on a stored report

MaxAwardCalls == 2   \* direct invocations of the exported awardCredibilityPoint

Users == {"A", "B"}

OTHER_TYPE == <<"o", "t", "h", "e", "r">>

PostProblems == {Some(<<>>), Some(<<" ", "a">>)}

PostTypes == {Null, Some(<<"f">>)}

PostLats == {Null, Some(1), Some(201)}

PostLngs == {Null, Some(7)}

\* request bodies of POST /api/reports (number and location, which the scorer
\* never reads, are taken to be present)
Payloads ==
    [user_id : Users, problem : PostProblems, type : PostTypes,
     lat : PostLats, lng : PostLngs]

----------------------------------------------------------------------------
(* src/lib/credibility.ts: findAdjacentReportsWithSameIssue *)

\* The filter callback, lines 96-111.  Line 98 declares a block-scoped
\* `const hasSameIssue` and calls hasSameIssue in its own initializer: inside
\* the callback the name is the not yet initialized local binding, so the call
\* throws (a ReferenceError; a TypeError when compiled down to `var`) for
\* every candidate, after areAdjacent has been evaluated.
FilterCallbackThrows(currentReport, report) == TRUE

\* what the callback would return
FilterCallback(currentReport, report) ==
    areAdjacent(currentReport, report) /\ hasSameIssue(currentReport, report)

\* the rows the query .neq('id', currentReport.id) returns
QueryReportsExcluding(rows, id) == {r \in rows : r.id # id}

findAdjacentReportsWithSameIssue_IgnoresError(currentReport, ok, rows) ==
    {r \in QueryReportsExcluding(rows, currentReport.id) :
        /\ areAdjacent(currentReport, r)
        /\ ~hasSameIssueThrows(currentReport, r)
        /\ hasSameIssue(currentReport, r)}

\* ok: the query returned no error; rows: the table at that moment
findAdjacentReportsWithSameIssue(currentReport, ok, rows) ==
    IF ~ok THEN {}
    ELSE LET allReports == QueryReportsExcluding(rows, currentReport.id) IN
         IF allReports = {} THEN {}
         ELSE IF \E r \in allReports : FilterCallbackThrows(currentReport, r)
              THEN {}     \* caught at line 115
              ELSE {r \in allReports : FilterCallback(currentReport, r)}

----------------------------------------------------------------------------
(* src/lib/credibility.ts: checkAndAwardCredibility, up to the awards *)

\* lines 219-232: the distinct users of the batch, empty when nothing is awarded
UsersToAward(newReport, adjacentReports) ==
    IF adjacentReports = {} THEN {}
    ELSE LET allUsersToAward ==
                 {newReport.user_id} \cup {r.user_id : r \in adjacentReports}
         IN  IF Cardinality(allUsersToAward) >= 2 THEN allUsersToAward ELSE {}

\* the matching of the earlier revision of the scorer: no throw in the filter
MatchesWithoutThrow(newReport, ok, rows) ==
    IF ~ok THEN {}
    ELSE {r \in QueryReportsExcluding(rows, newReport.id) :
            /\ areAdjacent(newReport, r)
            /\ ~hasSameIssueThrows(newReport, r)
            /\ hasSameIssue(newReport, r)}

\* the earlier revision: every user of a non-empty match set is awarded, the
\* submitter included, with no two-distinct-users gate
checkAndAwardCredibility_NoGate(newReport, ok, rows) ==
    LET adjacentReports == MatchesWithoutThrow(newReport, ok, rows) IN
    [skipped |-> FALSE,
     users   |-> IF adjacentReports = {} THEN {}
                 ELSE {newReport.user_id} \cup {r.user_id : r \in adjacentReports}]

\* no early exit, and candidates matched on the issue alone
checkAndAwardCredibility_NoCoordinateCheck(newReport, ok, rows) ==
    [skipped |-> FALSE,
     users   |-> IF ~ok THEN {}
                 ELSE UsersToAward(newReport,
                        {r \in QueryReportsExcluding(rows, newReport.id) :
                            /\ ~hasSameIssueThrows(newReport, r)
                            /\ hasSameIssue(newReport, r)})]

\* the query without .neq('id', ...): the new report corroborates itself
checkAndAwardCredibility_CountsOwnReport(newReport, ok, rows) ==
    IF ~TruthyNum(newReport.lat) \/ ~TruthyNum(newReport.lng)
    THEN [skipped |-> TRUE, users |-> {}]
    ELSE [skipped |-> FALSE,
          users   |-> IF ~ok THEN {}
                      ELSE {r.user_id : r \in
                              {r \in rows : /\ areAdjacent(newReport, r)
                                            /\ ~hasSameIssueThrows(newReport, r)
                                            /\ hasSameIssue(newReport, r)}}]

\* neither catch: the exception of the filter callback leaves the function
checkAndAwardCredibilityThrows_NoCatch(newReport, ok, rows) ==
    /\ TruthyNum(newReport.lat) /\ TruthyNum(newReport.lng)
    /\ ok
    /\ \E r \in QueryReportsExcluding(rows, newReport.id) :
          FilterCallbackThrows(newReport, r)

\* what leaves checkAndAwardCredibility as an exception: nothing.  The
\* exception of the filter callback is caught inside
\* findAdjacentReportsWithSameIssue (lines 115-118), a store error comes back
\* as a value, awardCredibilityPoint catches its own (lines 192-195), and the
\* whole body is inside the try of lines 203-260.
checkAndAwardCredibilityThrows(newReport, ok, rows) == FALSE

\* skipped: the early exit of lines 208-211 (no query is made);
\* users: the users awardCredibilityPoint is called for
checkAndAwardCredibility(newReport, ok, rows) ==
    IF ~TruthyNum(newReport.lat) \/ ~TruthyNum(newReport.lng)
    THEN [skipped |-> TRUE, users |-> {}]
    ELSE [skipped |-> FALSE,
          users   |-> UsersToAward(newReport,
                         findAdjacentReportsWithSameIssue(newReport, ok, rows))]

----------------------------------------------------------------------------
(* Tasks *)

Range(f) == {f[i] : i \in DOMAIN f}

RECURSIVE SetToSeq(_)
SetToSeq(S) ==
    IF S = {} THEN <<>>
    ELSE LET x == CHOOSE y \in S : TRUE IN <<x>> \o SetToSeq(S \ {x})

\* a call of awardCredibilityPoint(userId), suspended at its profile read.
\* parent: the scorer that made the call, 0 for a direct call; read: the
\* outcome of the profile read; profile: the row read (Null: none);
\* ok: the value returned; storeError: a store call of this task failed
NewAward(userId, parent) ==
    [user |-> userId, parent |-> parent, pc |-> "read", read |-> "none",
     profile |-> Null, newCredibility |-> 0, ok |-> FALSE, storeError |-> FALSE]

\* a call of checkAndAwardCredibility(newReport): finished at once by the
\* early exit, or suspended at the query for the other reports.
\* post: the request that made the call, 0 for a repeated call; query: the
\* outcome of the query; fetched: the rows it returned; adjacentReports: what
\* findAdjacentReportsWithSameIssue returned; users: the users an award was
\* started for; result: the number returned
NewScorer(newReport, post) ==
    [report |-> newReport, post |-> post,
     pc |-> IF checkAndAwardCredibility(newReport, TRUE, {}).skipped
            THEN "done" ELSE "query",
     query |-> "none", fetched |-> {}, adjacentReports |-> {}, users |-> {},
     result |-> 0]

AwardsOf(aw, s) == {i \in DOMAIN aw : aw[i].parent = s}

\* Promise.all of a scorer's awards resolves once all of them have: the scorer
\* returns the number of awards that returned true (lines 240-248)
Settle(sc, aw) ==
    [s \in DOMAIN sc |->
        IF sc[s].pc = "awarding" /\ \A i \in AwardsOf(aw, s) : aw[i].pc = "done"
        THEN [sc[s] EXCEPT !.pc = "done",
                           !.result = Cardinality({i \in AwardsOf(aw, s) : aw[i].ok})]
        ELSE sc[s]]

----------------------------------------------------------------------------
(* src/lib/credibility.ts: awardCredibilityPoint, the store writes *)

Credibility(profile) == IF IsNull(profile) THEN 0 ELSE Val(profile)

\* an update in both branches: with no row it matches nothing and reports no error
UpdateOrInsert_UpdateOnly(prof, userId, profile, newCredibility, ok) ==
    IF ~ok THEN [error |-> TRUE, profiles |-> prof]
    ELSE [error |-> FALSE,
          profiles |-> IF IsNull(prof[userId]) THEN prof
                       ELSE [prof EXCEPT ![userId] = Some(newCredibility)]]

\* the write as an increment of the stored value, done by the store
UpdateOrInsert_AtomicIncrement(prof, userId, profile, newCredibility, ok) ==
    IF ~ok \/ (IsNull(profile) /\ ~IsNull(prof[userId]))
    THEN [error |-> TRUE, profiles |-> prof]
    ELSE [error |-> FALSE,
          profiles |-> [prof EXCEPT ![userId] = Some(Credibility(prof[userId]) + 1)]]

\* lines 149-167: update the row when the read found one, insert it otherwise.
\* profile: what the read returned; ok: the store call met no failure of its
\* own.  user_id is UNIQUE in profiles, so an insert fails when a row exists.
UpdateOrInsert(prof, userId, profile, newCredibility, ok) ==
    IF ~IsNull(profile)
    THEN IF ~ok THEN [error |-> TRUE, profiles |-> prof]
         ELSE [error |-> FALSE,
               profiles |-> IF IsNull(prof[userId]) THEN prof
                            ELSE [prof EXCEPT ![userId] = Some(newCredibility)]]
    ELSE IF ~ok \/ ~IsNull(prof[userId]) THEN [error |-> TRUE, profiles |-> prof]
         ELSE [error |-> FALSE,
               profiles |-> [prof EXCEPT ![userId] = Some(newCredibility)]]

\* lines 172-187: the upsert fallback
Upsert(prof, userId, newCredibility, ok) ==
    IF ~ok THEN [error |-> TRUE, profiles |-> prof]
    ELSE [error |-> FALSE, profiles |-> [prof EXCEPT ![userId] = Some(newCredibility)]]

----------------------------------------------------------------------------
(* src/app/api/reports/route.ts: POST *)

\* line 168, for the fields of the model
MissingRequiredFields(body) == ~TruthyStr(body.problem) \/ body.user_id = ""

\* lines 175-187: the inserted row (type defaults to 'other', line 166)
NewRow(id, body) ==
    [id |-> id, user_id |-> body.user_id,
     problem |-> Some(Trim(Val(body.problem))),
     type |-> IF IsNull(body.type) THEN Some(OTHER_TYPE) ELSE body.type,
     lat |-> body.lat, lng |-> body.lng]

\* a request: its position in the handler, the status answered (0: none yet),
\* the row inserted, the user_credibility of the response body, the scorer started
NewPost ==
    [pc |-> "responded", status |-> 0, row |-> 0,
     user_credibility |-> 0, scorer |-> 0, scorerPending |-> FALSE]

\* the handler awaits the scorer: it has answered only if the scorer is done
PostResponse_AwaitsScorer(userCredibility, scorer) ==
    IF scorer.pc = "done"
    THEN [status |-> 201, user_credibility |-> userCredibility]
    ELSE [status |-> 0, user_credibility |-> 0]

\* lines 225-242: the response sent in the step that has started the scorer
PostResponse(userCredibility, scorer) ==
    [status |-> 201, user_credibility |-> userCredibility]

----------------------------------------------------------------------------
(* Initial state *)

PureOff == [pc |-> "off"]

\* no request to /api/notifications/check has been made
CheckIdle ==
    [pc |-> "idle", testMode |-> FALSE, currentHour |-> Null, currentMinute |-> Null,
     notificationTimes |-> <<>>, userIds |-> <<>>, lookups |-> <<>>,
     usersToNotify |-> <<>>, airQualityData |-> Null, shouldSendEmails |-> FALSE,
     aqiToUse |-> 0, emailResults |-> <<>>, emailsSent |-> 0, status |-> 0]

\* the identifiers the chat requests of the model come from
FORWARDED_CLIENT == <<"1">>

UNKNOWN_CLIENT == <<"u", "n", "k", "n", "o", "w", "n">>

Identifiers == {FORWARDED_CLIENT, UNKNOWN_CLIENT}

\* no chat request has been made: the module-level Map is empty
\* the instants at which the server's clock is read: the start, the last
\* millisecond of a window opened at the start, and the first one after it
Instants == {0, 60000, 60001}

ChatIdle ==
    [pc |-> "idle", client |-> <<>>, status |-> 0, outcomes |-> <<>>, backoffs |-> <<>>]

InitChat ==
    /\ now = 0
    /\ requestCache = [id \in Identifiers |-> Null]
    /\ passed = [id \in Identifiers |-> [t \in Instants |-> 0]]
    /\ chat = ChatIdle

\* 'Hanoi, Vietnam'
DEFAULT_LOCATION ==
    <<"H", "a", "n", "o", "i", ",", " ", "V", "i", "e", "t", "n", "a", "m">>

\* the location parameters of the weather requests
LocationParams == {Null, Some(<<>>), Some(<<"b">>), Some(<<" ", "B">>)}

\* the forecast parameters of the weather requests
ForecastParams == {Null, Some("false"), Some("true")}

\* searchParams.get('location') || 'Hanoi, Vietnam'
LocationOf(param) == IF TruthyStr(param) THEN Val(param) ELSE DEFAULT_LOCATION

\* searchParams.get('forecast') !== 'false'
IncludeForecast(param) == param # Some("false")

\* `${location.toLowerCase().trim()}_${includeForecast}`
CacheKey(location, includeForecast) ==
    Trim(ToLowerCase(location)) \o <<"_">>
        \o (IF includeForecast THEN <<"t", "r", "u", "e">>
                               ELSE <<"f", "a", "l", "s", "e">>)

CacheKeys ==
    {CacheKey(LocationOf(l), IncludeForecast(f)) : l \in LocationParams, f \in ForecastParams}

\* no weather request has been answered
NoResponse == [status |-> 0, fromCache |-> FALSE, key |-> <<>>, timestamp |-> 0, at |-> 0]

\* the weather route's Map is empty
InitWeather ==
    /\ weatherCache = [k \in CacheKeys |-> Null]
    /\ weather = [pending |-> <<>>, last |-> NoResponse]

\* GET /api/reports has not been asked
ListingIdle == [status |-> 0, profilesRead |-> Null, reports |-> <<>>]

InitTables ==
    /\ reports = <<>>
    /\ posts = <<>>
    /\ scorers = <<>>
    /\ awards = <<>>
    /\ notification_times = [u \in Users |-> Null]
    /\ check = CheckIdle
    /\ listing = ListingIdle
    /\ InitChat
    /\ timeReqs = <<>>
    /\ InitWeather

Init ==
    /\ InitTables
    /\ profiles \in [Users -> {Null, Some(0)}]
    /\ pure = PureOff

\* a server started on an empty database
InitEmpty ==
    /\ InitTables
    /\ profiles = [u \in Users |-> Null]
    /\ pure = PureOff

----------------------------------------------------------------------------
(* Actions *)

\* POST /api/reports up to the insert (lines 164-195)
PostSubmit(body) ==
    /\ Len(posts) < MaxPosts
    /\ IF MissingRequiredFields(body)
       THEN /\ posts' = Append(posts, [NewPost EXCEPT !.status = 400])
            /\ UNCHANGED reports
       ELSE \E ok \in BOOLEAN :
              IF ok
              THEN /\ reports' = Append(reports, NewRow(Len(reports) + 1, body))
                   /\ posts' = Append(posts, [NewPost EXCEPT
                                                !.pc = "inserted",
                                                !.row = Len(reports) + 1])
              ELSE /\ posts' = Append(posts, [NewPost EXCEPT !.status = 500])
                   /\ UNCHANGED reports
    /\ UNCHANGED <<profiles, scorers, awards, pure>>
    /\ UNCHANGED exceptApp

ScorerCalls_Twice(newReport, post) ==
    <<NewScorer(newReport, post), NewScorer(newReport, post)>>

\* lines 235-237: the calls of checkAndAwardCredibility the handler makes for
\* the inserted row
ScorerCalls(newReport, post) == <<NewScorer(newReport, post)>>

\* POST /api/reports after the insert (lines 197-242): read the submitter's
\* profile (an error leaves the credibility 0), call checkAndAwardCredibility
\* without awaiting it, answer 201
PostRespond(p) ==
    /\ posts[p].pc = "inserted"
    /\ \E ok \in BOOLEAN :
         LET newReport == reports[posts[p].row]
             profile == IF ok THEN profiles[newReport.user_id] ELSE Null
             calls == ScorerCalls(newReport, p)
             scorer == calls[1]
             response == PostResponse(Credibility(profile), scorer)
         IN  /\ scorers' = scorers \o calls
             /\ posts' = [posts EXCEPT ![p] =
                            [@ EXCEPT !.pc = "responded",
                                      !.status = response.status,
                                      !.user_credibility = response.user_credibility,
                                      !.scorer = Len(scorers) + 1,
                                      !.scorerPending = scorer.pc # "done"]]
    /\ UNCHANGED <<reports, profiles, awards, pure>>
    /\ UNCHANGED exceptApp

\* checkAndAwardCredibility called again on a stored report (a retry)
Retry(r) ==
    /\ Cardinality({s \in DOMAIN scorers : scorers[s].post = 0}) < MaxRetries
    /\ scorers' = Append(scorers, NewScorer(reports[r], 0))
    /\ UNCHANGED <<reports, profiles, posts, awards, pure>>
    /\ UNCHANGED exceptApp

\* checkAndAwardCredibility from the answer of the query on (lines 214-256)
ScorerFetch(s) ==
    /\ scorers[s].pc = "query"
    /\ \E ok \in BOOLEAN :
         LET rows == Range(reports)
             newReport == scorers[s].report
             call == checkAndAwardCredibility(newReport, ok, rows)
             batch == SetToSeq(call.users)
         IN  /\ awards' = awards \o [i \in 1..Len(batch) |-> NewAward(batch[i], s)]
             /\ scorers' = [scorers EXCEPT ![s] =
                              [@ EXCEPT !.query = IF ok THEN "ok" ELSE "error",
                                        !.fetched = IF ok
                                                    THEN QueryReportsExcluding(rows, newReport.id)
                                                    ELSE {},
                                        !.adjacentReports =
                                            findAdjacentReportsWithSameIssue(newReport, ok, rows),
                                        !.users = call.users,
                                        !.pc = IF call.users = {} THEN "done"
                                               ELSE "awarding"]]
    /\ UNCHANGED <<reports, profiles, posts, pure>>
    /\ UNCHANGED exceptApp

\* awardCredibilityPoint called directly
AwardCall(userId) ==
    /\ Cardinality(AwardsOf(awards, 0)) < MaxAwardCalls
    /\ awards' = Append(awards, NewAward(userId, 0))
    /\ UNCHANGED <<reports, profiles, posts, scorers, pure>>
    /\ UNCHANGED exceptApp

\* lines 130-142: the profile read
AwardRead(t) ==
    /\ awards[t].pc = "read"
    /\ \E ok \in BOOLEAN :
         LET task == IF ok
                     THEN [awards[t] EXCEPT
                             !.pc = "write", !.read = "ok",
                             !.profile = profiles[awards[t].user],
                             !.newCredibility = Credibility(profiles[awards[t].user]) + 1]
                     ELSE [awards[t] EXCEPT
                             !.pc = "done", !.read = "error",
                             !.ok = FALSE, !.storeError = TRUE]
         IN  /\ awards' = [awards EXCEPT ![t] = task]
             /\ scorers' = Settle(scorers, awards')
    /\ UNCHANGED <<reports, profiles, posts, pure>>
    /\ UNCHANGED exceptApp

\* lines 149-169, 190-191: the update or insert
AwardWrite(t) ==
    /\ awards[t].pc = "write"
    /\ \E ok \in BOOLEAN :
         LET w == UpdateOrInsert(profiles, awards[t].user, awards[t].profile,
                                 awards[t].newCredibility, ok)
         IN  /\ profiles' = w.profiles
             /\ awards' = [awards EXCEPT ![t] =
                             IF w.error
                             THEN [@ EXCEPT !.pc = "upsert",
                                            !.storeError = @ \/ ~ok]
                             ELSE [@ EXCEPT !.pc = "done", !.ok = TRUE]]
             /\ scorers' = Settle(scorers, awards')
    /\ UNCHANGED <<reports, posts, pure>>
    /\ UNCHANGED exceptApp

\* lines 170-191: the upsert fallback
AwardUpsert(t) ==
    /\ awards[t].pc = "upsert"
    /\ \E ok \in BOOLEAN :
         LET w == Upsert(profiles, awards[t].user, awards[t].newCredibility, ok)
         IN  /\ profiles' = w.profiles
             /\ awards' = [awards EXCEPT ![t] =
                             [@ EXCEPT !.pc = "done", !.ok = ~w.error,
                                       !.storeError = @ \/ ~ok]]
             /\ scorers' = Settle(scorers, awards')
    /\ UNCHANGED <<reports, posts, pure>>
    /\ UNCHANGED exceptApp

\* The application: report submissions and the scorer they start.  The steps
\* of awardCredibilityPoint are not among them: the scorer as written never
\* reaches an award (findAdjacentReportsWithSameIssue returns no report).
Next ==
    \/ \E body \in Payloads : PostSubmit(body)
    \/ \E p \in DOMAIN posts : PostRespond(p)
    \/ \E r \in DOMAIN reports : Retry(r)
    \/ \E s \in DOMAIN scorers : ScorerFetch(s)

Spec == Init /\ [][Next]_vars

\* The same, with the handler going on after the awaited insert has resolved
SpecResponding == Spec /\ WF_vars(\E p \in DOMAIN posts : PostRespond(p))

\* The exported awardCredibilityPoint, called directly and concurrently.
\* one stored report of each user
StoredReports ==
    [i \in 1..Len(SetToSeq(Users)) |->
        NewRow(i, [user_id |-> SetToSeq(Users)[i], problem |-> Some(<<"a">>),
                   type |-> Null, lat |-> Some(1), lng |-> Some(7)])]

InitAward ==
    /\ reports = StoredReports
    /\ posts = <<>>
    /\ scorers = <<>>
    /\ awards = <<>>
    /\ notification_times = [u \in Users |-> Null]
    /\ check = CheckIdle
    /\ listing = ListingIdle
    /\ InitChat
    /\ timeReqs = <<>>
    /\ InitWeather
    /\ profiles \in [Users -> {Null, Some(0), Some(1)}]
    /\ pure = PureOff

CredibilityMap_NoDefault(rows, ok, prof) ==
    [u \in {r.user_id : r \in Range(rows)} |->
        IF ok /\ ~IsNull(prof[u]) THEN Val(prof[u]) ELSE -1]

\* src/app/api/reports/route.ts lines 88-123: every user of a listed report
\* starts at 0; the credibility of a profile row replaces it when the
\* profiles query (ok) succeeds.  The column is an INTEGER, read as a number
CredibilityMap(rows, ok, prof) ==
    [u \in {r.user_id : r \in Range(rows)} |->
        IF ok /\ ~IsNull(prof[u]) THEN Val(prof[u]) ELSE 0]

\* .order('created_at', { ascending: false }): the newest row first
NewestFirst(rows) == [i \in 1..Len(rows) |-> rows[Len(rows) + 1 - i]]

\* GET /api/reports (lines 72-160); profilesRead: the profiles the handler
\* read, Null when that query failed
GetReports ==
    /\ \E ok \in BOOLEAN, okProfiles \in BOOLEAN :
         LET reportsList == NewestFirst(reports)
             credibilityMap == CredibilityMap(reportsList, okProfiles, profiles)
         IN  listing' =
               IF ~ok THEN [status |-> 500, profilesRead |-> Null, reports |-> <<>>]
               ELSE [status |-> 200,
                     profilesRead |-> IF okProfiles THEN Some(profiles) ELSE Null,
                     reports |-> [i \in 1..Len(reportsList) |->
                                    [id |-> reportsList[i].id,
                                     reported_by |-> reportsList[i].user_id,
                                     user_credibility |->
                                        credibilityMap[reportsList[i].user_id]]]]
    /\ UNCHANGED exceptList

NextAward ==
    \/ GetReports
    \/ \E userId \in Users : AwardCall(userId)
    \/ \E t \in DOMAIN awards : AwardRead(t)
    \/ \E t \in DOMAIN awards : AwardWrite(t)
    \/ \E t \in DOMAIN awards : AwardUpsert(t)

SpecAward == InitAward /\ [][NextAward]_vars

----------------------------------------------------------------------------
(* areAdjacent and hasSameIssue applied to a pair of reports *)

PureLats == {Null, Some(0), Some(1), Some(501), Some(502)}

PureLngs == {Null, Some(0), Some(7)}

PureTypes == {Null, Some(<<>>), Some(<<"f">>), Some(<<"F">>)}

PureProblems == {Null, Some(<<"a">>), Some(<<" ", "A", " ">>), Some(<<"b">>)}

PureReports(id, userId) ==
    [id : {id}, user_id : {userId}, problem : PureProblems, type : PureTypes,
     lat : PureLats, lng : PureLngs]

InitPure ==
    /\ InitTables
    /\ profiles = [u \in Users |-> Null]
    /\ pure \in [pc : {"input"}, report1 : PureReports(1, "A"),
                 report2 : PureReports(2, "B"),
                 adjacent : {FALSE}, issue : {"none"},
                 adjacentBack : {FALSE}, issueBack : {"none"},
                 query : {"none"}, outcome : {"none"},
                 adjacentReports : {{}}, users : {{}}]

ApplyAreAdjacent ==
    /\ pure.pc = "input"
    /\ pure' = [pure EXCEPT !.pc = "adjacent",
                            !.adjacent = areAdjacent(pure.report1, pure.report2),
                            !.adjacentBack = areAdjacent(pure.report2, pure.report1)]
    /\ UNCHANGED <<reports, profiles, posts, scorers, awards>>
    /\ UNCHANGED exceptApp

\* "true" or "false" as returned, "throw" for the TypeError
IssueOutcome(report1, report2) ==
    IF hasSameIssueThrows(report1, report2) THEN "throw"
    ELSE IF hasSameIssue(report1, report2) THEN "true" ELSE "false"

\* hasSameIssue applied to the pair, in both orders
ApplyHasSameIssue ==
    /\ pure.pc = "adjacent"
    /\ pure' = [pure EXCEPT
                  !.pc = "done",
                  !.issue = IssueOutcome(pure.report1, pure.report2),
                  !.issueBack = IssueOutcome(pure.report2, pure.report1)]
    /\ UNCHANGED <<reports, profiles, posts, scorers, awards>>
    /\ UNCHANGED exceptApp

\* checkAndAwardCredibility(report1) with report2 the one other stored report,
\* up to the awards.  query: the outcome of the query, "none" after the
\* early exit; outcome: "returned" or "throw"; adjacentReports: what
\* findAdjacentReportsWithSameIssue returned; users: the users to award
ApplyCheckAndAward ==
    /\ pure.pc = "done"
    /\ \E ok \in BOOLEAN :
         LET rows == {pure.report1, pure.report2}
             call == checkAndAwardCredibility(pure.report1, ok, rows)
         IN  pure' = [pure EXCEPT
                        !.pc = "scored",
                        !.query = IF call.skipped THEN "none"
                                  ELSE IF ok THEN "ok" ELSE "error",
                        !.outcome = IF checkAndAwardCredibilityThrows(pure.report1, ok, rows)
                                    THEN "throw" ELSE "returned",
                        !.adjacentReports =
                            IF call.skipped THEN {}
                            ELSE findAdjacentReportsWithSameIssue(pure.report1, ok, rows),
                        !.users = call.users]
    /\ UNCHANGED <<reports, profiles, posts, scorers, awards>>
    /\ UNCHANGED exceptApp

NextPure ==
    \/ ApplyAreAdjacent
    \/ ApplyHasSameIssue
    \/ ApplyCheckAndAward

SpecPure == InitPure /\ [][NextPure]_vars

----------------------------------------------------------------------------
(* src/app/api/notifications/check/route.ts: handleCheckAndNotify *)

Digits == <<"0", "1", "2", "3", "4", "5", "6", "7", "8", "9">>

IsDigit(c) == \E i \in DOMAIN Digits : Digits[i] = c

DigitValue(c) == (CHOOSE i \in DOMAIN Digits : Digits[i] = c) - 1

RECURSIVE LeadingDigits(_)
LeadingDigits(s) ==
    IF s = <<>> \/ ~IsDigit(Head(s)) THEN <<>>
    ELSE <<Head(s)>> \o LeadingDigits(Tail(s))

RECURSIVE DecimalValue(_)
DecimalValue(d) ==
    IF d = <<>> THEN 0
    ELSE 10 * DecimalValue(SubSeq(d, 1, Len(d) - 1)) + DigitValue(d[Len(d)])

\* parseInt of an unsigned string: leading white space is skipped, the
\* leading digits are read; Null stands for NaN
parseInt(s) ==
    LET d == LeadingDigits(TrimStart(s))
    IN  IF d = <<>> THEN Null ELSE Some(DecimalValue(d))

\* lines 80-84: the hour (or minute) of the request's query string when it is
\* given and not empty, whether or not test=true is given; else the clock's
CurrentTime(param, clock) ==
    IF TruthyStr(param) THEN parseInt(Val(param)) ELSE Some(clock)

\* line 145
IsEnabled(time) == time.enabled # Some(FALSE)

\* line 149; NaN equals nothing
TimeMatches(time, currentHour, currentMinute) ==
    /\ IsEnabled(time)
    /\ ~IsNull(currentHour) /\ time.hour = Val(currentHour)
    /\ ~IsNull(currentMinute) /\ time.minute = Val(currentMinute)

\* lines 110-160 for one profile row: a row without notification_times is skipped
TimesOfProfile(nt, userId, currentHour, currentMinute) ==
    IF IsNull(nt[userId]) THEN <<>>
    ELSE LET matched == SelectSeq(Val(nt[userId]),
                                  LAMBDA time : TimeMatches(time, currentHour, currentMinute))
         IN  [i \in 1..Len(matched) |->
                [user_id |-> userId, hour |-> matched[i].hour,
                 minute |-> matched[i].minute]]

RECURSIVE CollectNotificationTimes(_, _, _, _)
CollectNotificationTimes(rows, nt, currentHour, currentMinute) ==
    IF rows = <<>> THEN <<>>
    ELSE TimesOfProfile(nt, Head(rows), currentHour, currentMinute)
         \o CollectNotificationTimes(Tail(rows), nt, currentHour, currentMinute)

\* line 181: [...new Set(...)] keeps the first occurrence of each user
RECURSIVE UniqueUserIds(_)
UniqueUserIds(ids) ==
    IF ids = <<>> THEN <<>>
    ELSE LET before == UniqueUserIds(SubSeq(ids, 1, Len(ids) - 1))
             last == ids[Len(ids)]
         IN  IF \E i \in DOMAIN before : before[i] = last
             THEN before ELSE Append(before, last)

\* lines 254-287; response: the aqius the air-quality service answered, Null
\* when a key is missing or a fetch failed. `pollution.aqius || 50`
AirQualityData(response) ==
    IF IsNull(response) THEN Null
    ELSE Some(IF Val(response) = 0 THEN 50 ELSE Val(response))

IsBadAirQuality_Inclusive(airQualityData) ==
    ~IsNull(airQualityData) /\ Val(airQualityData) >= 100

\* line 290
IsBadAirQuality(airQualityData) ==
    ~IsNull(airQualityData) /\ Val(airQualityData) > 100

ShouldSendEmails_AqiOnly(testMode, airQualityData) ==
    IsBadAirQuality(airQualityData)

\* line 291
ShouldSendEmails(testMode, airQualityData) ==
    testMode \/ IsBadAirQuality(airQualityData)

\* line 310
AqiToUse(testMode, airQualityData) ==
    IF testMode /\ IsNull(airQualityData) THEN 150
    ELSE IF IsNull(airQualityData) \/ Val(airQualityData) = 0 THEN 50
         ELSE Val(airQualityData)

\* the requests and the stored notification times the model draws from
ClockHours == {9, 10}

ClockMinutes == {30}

HourParams == {Null, Some(<<"9">>), Some(<<"x">>)}

MinuteParams == {Null, Some(<<"4", "5">>)}

TimeEntries ==
    [hour : {9, 10}, minute : {30}, enabled : {Null, Some(TRUE), Some(FALSE)}]

NotificationLists ==
    {Null, Some(<<>>)}
    \cup {Some(<<time>>) : time \in TimeEntries}
    \cup {Some(<<time, [hour |-> 9, minute |-> 30, enabled |-> Some(TRUE)]>>) :
            time \in [hour : {9}, minute : {30}, enabled : {Some(TRUE), Some(FALSE)}]}

AirQualityResponses == {Null, Some(0), Some(100), Some(101)}

\* the rows of the profiles select, in the order the store returns them
ProfileRows == SetToSeq(Users)

InitNotify ==
    /\ reports = <<>>
    /\ posts = <<>>
    /\ scorers = <<>>
    /\ awards = <<>>
    /\ profiles = [u \in Users |-> Null]
    /\ pure = PureOff
    /\ notification_times \in [Users -> NotificationLists]
    /\ check = CheckIdle
    /\ listing = ListingIdle
    /\ InitChat
    /\ timeReqs = <<>>
    /\ InitWeather

\* lines 75-86: a request arrives (the cron job's, or a manual one)
NotifyRequest(testMode, hourParam, minuteParam, clockHour, clockMinute) ==
    /\ check.pc \in {"idle", "done"}
    /\ check' = [CheckIdle EXCEPT
                   !.pc = "profiles",
                   !.testMode = testMode,
                   !.currentHour = CurrentTime(hourParam, clockHour),
                   !.currentMinute = CurrentTime(minuteParam, clockMinute)]
    /\ UNCHANGED notification_times
    /\ UNCHANGED exceptNotify

\* lines 89-183: the profiles are read and the matching times collected
NotifyFetchProfiles ==
    /\ check.pc = "profiles"
    /\ \E ok \in BOOLEAN :
         LET notificationTimes ==
                 CollectNotificationTimes(ProfileRows, notification_times,
                                          check.currentHour, check.currentMinute)
             userIds == UniqueUserIds([i \in 1..Len(notificationTimes) |->
                                          notificationTimes[i].user_id])
         IN  check' = IF ~ok
                      THEN [check EXCEPT !.pc = "done", !.status = 500]
                      ELSE IF notificationTimes = <<>>
                      THEN [check EXCEPT !.pc = "done", !.status = 200]
                      ELSE [check EXCEPT !.pc = "emails",
                                         !.notificationTimes = notificationTimes,
                                         !.userIds = userIds]
    /\ UNCHANGED notification_times
    /\ UNCHANGED exceptNotify

\* lines 192-243, one turn of the loop: the user's e-mail address is looked
\* up; found is false without a service role key, on an auth error and for a
\* user without address
NotifyLookupEmail ==
    /\ check.pc = "emails"
    /\ \E found \in BOOLEAN :
         LET userId == check.userIds[Len(check.lookups) + 1]
             usersToNotify == IF found THEN Append(check.usersToNotify, userId)
                              ELSE check.usersToNotify
             last == Len(check.lookups) + 1 = Len(check.userIds)
         IN  check' = [check EXCEPT
                         !.lookups = Append(@, found),
                         !.usersToNotify = usersToNotify,
                         !.pc = IF ~last THEN "emails"
                                ELSE IF usersToNotify = <<>> THEN "done"
                                ELSE "airquality",
                         !.status = IF last /\ usersToNotify = <<>> THEN 200 ELSE @]
    /\ UNCHANGED notification_times
    /\ UNCHANGED exceptNotify

\* lines 246-311: the air quality is fetched and the decision taken
NotifyFetchAirQuality ==
    /\ check.pc = "airquality"
    /\ \E response \in AirQualityResponses :
         LET airQualityData == AirQualityData(response)
             shouldSendEmails == ShouldSendEmails(check.testMode, airQualityData)
         IN  check' = [check EXCEPT
                         !.airQualityData = airQualityData,
                         !.shouldSendEmails = shouldSendEmails,
                         !.aqiToUse = IF shouldSendEmails
                                      THEN AqiToUse(check.testMode, airQualityData)
                                      ELSE @,
                         !.pc = IF shouldSendEmails THEN "send" ELSE "done",
                         !.status = IF shouldSendEmails THEN @ ELSE 200]
    /\ UNCHANGED notification_times
    /\ UNCHANGED exceptNotify

\* lines 318-414, one turn of the loop: the e-mail to the next user is sent
\* (or logged, without a mail key); ok is false when sendEmail throws
NotifySendEmail ==
    /\ check.pc = "send"
    /\ \E ok \in BOOLEAN :
         LET user == check.usersToNotify[Len(check.emailResults) + 1]
             last == Len(check.emailResults) + 1 = Len(check.usersToNotify)
         IN  check' = [check EXCEPT
                         !.emailResults = Append(@, [user_id |-> user, success |-> ok,
                                                     aqi |-> check.aqiToUse]),
                         !.emailsSent = IF ok THEN @ + 1 ELSE @,
                         !.pc = IF last THEN "done" ELSE "send",
                         !.status = IF last THEN 200 ELSE @]
    /\ UNCHANGED notification_times
    /\ UNCHANGED exceptNotify

NextNotify ==
    \/ \E testMode \in BOOLEAN, hourParam \in HourParams, minuteParam \in MinuteParams,
          clockHour \in ClockHours, clockMinute \in ClockMinutes :
          NotifyRequest(testMode, hourParam, minuteParam, clockHour, clockMinute)
    \/ NotifyFetchProfiles
    \/ NotifyLookupEmail
    \/ NotifyFetchAirQuality
    \/ NotifySendEmail

SpecNotify == InitNotify /\ [][NextNotify]_vars

----------------------------------------------------------------------------
(* /api/notifications: POST, PUT and DELETE on a profile's notification_times *)

\* the number of requests made to /api/notifications
MaxTimeRequests == 3

PostBodies ==
    [user_id : {Null, Some("A")}, hour : {Null, Some(-1), Some(8), Some(9), Some(24)},
     minute : {Null, Some(0), Some(60)}, enabled : {Null, Some(FALSE)}]

PutBodies ==
    [id : {Null, Some(1), Some(2)}, user_id : {Null, Some("A")},
     hour : {Null, Some(8), Some(24)}, minute : {Null, Some(60)},
     enabled : {Null, Some(FALSE)}]

DeleteParams == [id : {Null, Some(1), Some(2)}, user_id : {Null, Some("A")}]

\* hour < 0 || hour > 23 ; minute < 0 || minute > 59
HourOutOfRange(hour) == hour < 0 \/ hour > 23

MinuteOutOfRange(minute) == minute < 0 \/ minute > 59

\* the array a handler works on: a null column reads as the empty array
ExistingTimes(nt, user_id) == IF IsNull(nt[user_id]) THEN <<>> ELSE Val(nt[user_id])

\* a request between its select and its update
Pending(kind, body, existingTimes) ==
    [kind |-> kind, pc |-> "write", status |-> 0, body |-> body,
     existingTimes |-> existingTimes]

\* an answered request; what it was asked and what it read are kept
Answered(kind, body, existingTimes, status) ==
    [kind |-> kind, pc |-> "done", status |-> status, body |-> body,
     existingTimes |-> existingTimes]

\* a request refused before the profile is read
Refused(kind, status) ==
    [kind |-> kind, pc |-> "done", status |-> status, body |-> <<>>,
     existingTimes |-> <<>>]

\* existingTimes.find(nt => nt.hour === hour && nt.minute === minute)
HasDuplicate(existingTimes, hour, minute) ==
    \E i \in 1..Len(existingTimes) :
        existingTimes[i].hour = hour /\ existingTimes[i].minute = minute

\* existingTimes.findIndex(nt => nt.id === id), 0 for -1
FindIndex(existingTimes, id) ==
    IF \E i \in 1..Len(existingTimes) : existingTimes[i].id = id
    THEN CHOOSE i \in 1..Len(existingTimes) :
            existingTimes[i].id = id /\ \A j \in 1..(i - 1) : existingTimes[j].id # id
    ELSE 0

\* lines 290-292: the fields the body carries are assigned to the entry
UpdatedTimes(existingTimes, timeIndex, body) ==
    [existingTimes EXCEPT
        ![timeIndex] = [@ EXCEPT
            !.enabled = IF IsNull(body.enabled) THEN @ ELSE body.enabled,
            !.hour = IF IsNull(body.hour) THEN @ ELSE Val(body.hour),
            !.minute = IF IsNull(body.minute) THEN @ ELSE Val(body.minute)]]

\* existingTimes.filter(nt => nt.id !== id)
FilteredTimes(existingTimes, id) ==
    SelectSeq(existingTimes, LAMBDA nt : nt.id # id)

\* POST up to the answer of the select
TimesPost(body) ==
    /\ Len(timeReqs) < MaxTimeRequests
    /\ \E ok \in BOOLEAN :
         timeReqs' = Append(timeReqs,
            IF IsNull(body.user_id) \/ IsNull(body.hour) \/ IsNull(body.minute)
            THEN Refused("POST", 400)
            ELSE IF HourOutOfRange(Val(body.hour)) \/ MinuteOutOfRange(Val(body.minute))
            THEN Refused("POST", 400)
            ELSE IF ~ok
            THEN Refused("POST", 500)
            ELSE Pending("POST", body,
                         ExistingTimes(notification_times, Val(body.user_id))))
    /\ UNCHANGED notification_times
    /\ UNCHANGED exceptTimes

\* POST from the duplicate check to the response; the entry's id is fresh
TimesPostWrite(r) ==
    /\ timeReqs[r].kind = "POST" /\ timeReqs[r].pc = "write"
    /\ LET body == timeReqs[r].body
           existingTimes == timeReqs[r].existingTimes
           user_id == Val(body.user_id)
           newNotificationTime ==
               [id |-> r, user_id |-> user_id, hour |-> Val(body.hour),
                minute |-> Val(body.minute),
                enabled |-> IF IsNull(body.enabled) THEN Some(TRUE) ELSE body.enabled]
           updatedTimes == Append(existingTimes, newNotificationTime)
           answer(status) == Answered("POST", body, existingTimes, status)
       IN  IF HasDuplicate(existingTimes, Val(body.hour), Val(body.minute))
           THEN /\ timeReqs' = [timeReqs EXCEPT ![r] = answer(409)]
                /\ UNCHANGED notification_times
           ELSE \E ok \in BOOLEAN :
                  IF ok
                  THEN /\ notification_times' =
                            [notification_times EXCEPT ![user_id] = Some(updatedTimes)]
                       /\ timeReqs' = [timeReqs EXCEPT ![r] = answer(201)]
                  ELSE /\ timeReqs' = [timeReqs EXCEPT ![r] = answer(500)]
                       /\ UNCHANGED notification_times
    /\ UNCHANGED exceptTimes

\* PUT up to the answer of the select
TimesPut(body) ==
    /\ Len(timeReqs) < MaxTimeRequests
    /\ \E ok \in BOOLEAN :
         timeReqs' = Append(timeReqs,
            IF IsNull(body.id) \/ IsNull(body.user_id)
            THEN Refused("PUT", 400)
            ELSE IF ~IsNull(body.hour) /\ HourOutOfRange(Val(body.hour))
            THEN Refused("PUT", 400)
            ELSE IF ~IsNull(body.minute) /\ MinuteOutOfRange(Val(body.minute))
            THEN Refused("PUT", 400)
            ELSE IF ~ok
            THEN Refused("PUT", 500)
            ELSE Pending("PUT", body,
                         ExistingTimes(notification_times, Val(body.user_id))))
    /\ UNCHANGED notification_times
    /\ UNCHANGED exceptTimes

\* PUT from findIndex to the response
TimesPutWrite(r) ==
    /\ timeReqs[r].kind = "PUT" /\ timeReqs[r].pc = "write"
    /\ LET body == timeReqs[r].body
           existingTimes == timeReqs[r].existingTimes
           timeIndex == FindIndex(existingTimes, Val(body.id))
           answer(status) == Answered("PUT", body, existingTimes, status)
       IN  IF timeIndex = 0
           THEN /\ timeReqs' = [timeReqs EXCEPT ![r] = answer(404)]
                /\ UNCHANGED notification_times
           ELSE \E ok \in BOOLEAN :
                  IF ok
                  THEN /\ notification_times' =
                            [notification_times EXCEPT ![Val(body.user_id)] =
                                Some(UpdatedTimes(existingTimes, timeIndex, body))]
                       /\ timeReqs' = [timeReqs EXCEPT ![r] = answer(200)]
                  ELSE /\ timeReqs' = [timeReqs EXCEPT ![r] = answer(500)]
                       /\ UNCHANGED notification_times
    /\ UNCHANGED exceptTimes

\* DELETE up to the answer of the select
TimesDelete(params) ==
    /\ Len(timeReqs) < MaxTimeRequests
    /\ \E ok \in BOOLEAN :
         timeReqs' = Append(timeReqs,
            IF IsNull(params.id) \/ IsNull(params.user_id)
            THEN Refused("DELETE", 400)
            ELSE IF ~ok
            THEN Refused("DELETE", 500)
            ELSE Pending("DELETE", params,
                         ExistingTimes(notification_times, Val(params.user_id))))
    /\ UNCHANGED notification_times
    /\ UNCHANGED exceptTimes

\* DELETE from the filter to the response
TimesDeleteWrite(r) ==
    /\ timeReqs[r].kind = "DELETE" /\ timeReqs[r].pc = "write"
    /\ LET params == timeReqs[r].body
           existingTimes == timeReqs[r].existingTimes
           filteredTimes == FilteredTimes(existingTimes, Val(params.id))
           answer(status) == Answered("DELETE", params, existingTimes, status)
       IN  IF Len(filteredTimes) = Len(existingTimes)
           THEN /\ timeReqs' = [timeReqs EXCEPT ![r] = answer(404)]
                /\ UNCHANGED notification_times
           ELSE \E ok \in BOOLEAN :
                  IF ok
                  THEN /\ notification_times' =
                            [notification_times EXCEPT ![Val(params.user_id)] =
                                Some(filteredTimes)]
                       /\ timeReqs' = [timeReqs EXCEPT ![r] = answer(200)]
                  ELSE /\ timeReqs' = [timeReqs EXCEPT ![r] = answer(500)]
                       /\ UNCHANGED notification_times
    /\ UNCHANGED exceptTimes

NextTimes ==
    \/ \E body \in PostBodies : TimesPost(body)
    \/ \E r \in DOMAIN timeReqs : TimesPostWrite(r)
    \/ \E body \in PutBodies : TimesPut(body)
    \/ \E r \in DOMAIN timeReqs : TimesPutWrite(r)
    \/ \E params \in DeleteParams : TimesDelete(params)
    \/ \E r \in DOMAIN timeReqs : TimesDeleteWrite(r)

SpecTimes == InitEmpty /\ [][NextTimes]_vars

----------------------------------------------------------------------------
(* GET /api/weather and its cache *)

\* the number of weather requests that await their fetch at one time
MaxWeatherPending == 2

\* 5 * 60 * 1000
CACHE_DURATION == 300000

\* the instants at which the clock is read: the start, the last millisecond
\* at which an entry stored at the start is served, and the two after it
WeatherInstants == {0, 299999, 300000, 300001}

\* a cache that still serves an entry exactly 5 minutes old
IsFresh_Inclusive(cached, t) ==
    ~IsNull(cached) /\ t - Val(cached).timestamp <= CACHE_DURATION

\* cached && Date.now() - cached.timestamp < CACHE_DURATION
IsFresh(cached, t) ==
    ~IsNull(cached) /\ t - Val(cached).timestamp < CACHE_DURATION

\* cache.set followed by the loop that deletes the old entries; the data
\* are written as the key they were fetched for
CacheAfterSet(entries, key, t) ==
    LET set == [entries EXCEPT ![key] = Some([data |-> key, timestamp |-> t])]
    IN  [k \in DOMAIN set |->
            IF ~IsNull(set[k]) /\ t - Val(set[k]).timestamp > CACHE_DURATION
            THEN Null ELSE set[k]]

\* GET up to the response from the cache or the call of the fetch
WeatherGet(locationParam, forecastParam) ==
    LET location == LocationOf(locationParam)
        includeForecast == IncludeForecast(forecastParam)
        cacheKey == CacheKey(location, includeForecast)
        cached == weatherCache[cacheKey]
    IN  IF IsFresh(cached, now)
        THEN /\ weather' = [weather EXCEPT
                    !.last = [status |-> 200, fromCache |-> TRUE, key |-> cacheKey,
                              timestamp |-> Val(cached).timestamp, at |-> now]]
             /\ UNCHANGED <<weatherCache, now>>
             /\ UNCHANGED exceptWeather
        ELSE /\ Len(weather.pending) < MaxWeatherPending
             /\ weather' = [weather EXCEPT !.pending = Append(@, cacheKey)]
             /\ UNCHANGED <<weatherCache, now>>
             /\ UNCHANGED exceptWeather

\* GET from the answer of fetchWeatherAndAirQuality to the response
WeatherFetched(i, ok) ==
    /\ i \in DOMAIN weather.pending
    /\ LET cacheKey == weather.pending[i]
           rest == SubSeq(weather.pending, 1, i - 1)
                       \o SubSeq(weather.pending, i + 1, Len(weather.pending))
       IN  IF ok
           THEN /\ weatherCache' = CacheAfterSet(weatherCache, cacheKey, now)
                /\ weather' = [pending |-> rest,
                               last |-> [status |-> 200, fromCache |-> FALSE,
                                         key |-> cacheKey, timestamp |-> now, at |-> now]]
           ELSE /\ weather' = [pending |-> rest,
                               last |-> [NoResponse EXCEPT !.status = 500,
                                                           !.key = cacheKey, !.at = now]]
                /\ UNCHANGED weatherCache
    /\ UNCHANGED now
    /\ UNCHANGED exceptWeather

\* time passes
WeatherTick ==
    /\ \E t \in WeatherInstants : t > now
    /\ now' = CHOOSE t \in WeatherInstants :
                  t > now /\ \A u \in WeatherInstants : u > now => t <= u
    /\ UNCHANGED <<weatherCache, weather>>
    /\ UNCHANGED exceptWeather

NextWeather ==
    \/ \E locationParam \in LocationParams, forecastParam \in ForecastParams :
          WeatherGet(locationParam, forecastParam)
    \/ \E i \in 1..MaxWeatherPending, ok \in BOOLEAN : WeatherFetched(i, ok)
    \/ WeatherTick

SpecWeather == InitEmpty /\ [][NextWeather]_vars

----------------------------------------------------------------------------
(* POST /api/chat: validation, the rate limiter and the retry loop *)

\* the anonymous client makes at most this many requests that reach the limiter
MaxAnonymous == 1

RATE_LIMIT == 20

RATE_WINDOW_MS == 60000

MAX_PROMPT_LENGTH == 10000

MAX_ATTEMPTS == 3

\* cleanupCache: every expired entry is deleted
cleanupCache(cache, t) ==
    [id \in DOMAIN cache |->
        IF ~IsNull(cache[id]) /\ t > Val(cache[id]).resetTime THEN Null ELSE cache[id]]

\* a limiter that lets the request through while the count is at the maximum
checkRateLimit_OffByOne(cache, identifier, t) ==
    LET limit == cache[identifier] IN
    IF IsNull(limit) \/ t > Val(limit).resetTime
    THEN [allowed |-> TRUE,
          cache |-> [cache EXCEPT ![identifier] =
                        Some([count |-> 1, resetTime |-> t + RATE_WINDOW_MS])]]
    ELSE IF Val(limit).count > RATE_LIMIT
    THEN [allowed |-> FALSE, cache |-> cache]
    ELSE [allowed |-> TRUE,
          cache |-> [cache EXCEPT ![identifier] =
                        Some([Val(limit) EXCEPT !.count = @ + 1])]]

\* checkRateLimit: its result and the map it leaves
checkRateLimit(cache, identifier, t) ==
    LET limit == cache[identifier] IN
    IF IsNull(limit) \/ t > Val(limit).resetTime
    THEN [allowed |-> TRUE,
          cache |-> [cache EXCEPT ![identifier] =
                        Some([count |-> 1, resetTime |-> t + RATE_WINDOW_MS])]]
    ELSE IF Val(limit).count >= RATE_LIMIT
    THEN [allowed |-> FALSE, cache |-> cache]
    ELSE [allowed |-> TRUE,
          cache |-> [cache EXCEPT ![identifier] =
                        Some([Val(limit) EXCEPT !.count = @ + 1])]]

\* the prompts a request body carries; Null is a missing or non-string prompt
LongPrompt == [i \in 1..(MAX_PROMPT_LENGTH + 1) |-> "x"]

ShortPrompts == {Null, Some(<<>>), Some(<<" ">>), Some(<<"h", "i">>)}

Prompts == ShortPrompts \cup {Some(LongPrompt)}

\* the three validation failures, each answered 400
InvalidPrompt(prompt) ==
    \/ ~TruthyStr(prompt)
    \/ Len(Trim(Val(prompt))) = 0
    \/ Len(Val(prompt)) > MAX_PROMPT_LENGTH

\* split(',')[0]
FirstField(s) ==
    IF \E i \in 1..Len(s) : s[i] = ","
    THEN SubSeq(s, 1, (CHOOSE i \in 1..Len(s) :
                          s[i] = "," /\ \A j \in 1..(i - 1) : s[j] # ",") - 1)
    ELSE s

ForwardedFors == {Null, Some(<<"1">>), Some(<<" ", "1", ",", "2">>)}

RealIps == {Null, Some(<<"1">>)}

\* the identifier the limiter is asked about
ClientId(forwardedFor, realIp) ==
    IF TruthyStr(forwardedFor) THEN Trim(FirstField(Val(forwardedFor)))
    ELSE IF TruthyStr(realIp) THEN Val(realIp)
    ELSE UNKNOWN_CLIENT

RECURSIVE SumOver(_, _)
SumOver(f, S) ==
    IF S = {} THEN 0
    ELSE LET t == CHOOSE x \in S : TRUE IN f[t] + SumOver(f, S \ {t})

\* the requests of one identifier let through at the instants lo..hi
PassedBetween(id, lo, hi) ==
    SumOver(passed[id], {t \in Instants : lo <= t /\ t <= hi})

\* what one upstream call can come to: a reply, an answer without
\* candidates, status 429, another error status, or a rejected fetch
UpstreamOutcomes == {"text", "nocandidates", "429", "500", "network"}

UpstreamStatus(outcome) == IF outcome = "429" THEN 429 ELSE 500

\* a loop that goes round again after every upstream error status
ShouldRetry_AnyError(outcome) == outcome \in {"429", "500", "network"}

\* the outcomes after which the loop goes round again
ShouldRetry(outcome) == outcome \in {"429", "network"}

\* 2 ^ attempt
RECURSIVE Pow2(_)
Pow2(n) == IF n = 0 THEN 1 ELSE 2 * Pow2(n - 1)

\* the delay before the next round, attempt counted from 0
Backoff(outcome, attempt) ==
    IF outcome = "429" \/ attempt < MAX_ATTEMPTS - 1 THEN Pow2(attempt) * 1000 ELSE 0

\* POST up to the first upstream call
ChatPost(prompt, forwardedFor, realIp, apiKey) ==
    /\ chat.pc # "calling"
    /\ LET clientId == ClientId(forwardedFor, realIp)
           r == checkRateLimit(requestCache, clientId, now)
           answer(status) == [ChatIdle EXCEPT !.pc = "done", !.client = clientId,
                                               !.status = status]
       IN  IF InvalidPrompt(prompt)
           THEN /\ chat' = answer(400)
                /\ UNCHANGED <<requestCache, passed>>
           ELSE /\ clientId = UNKNOWN_CLIENT =>
                       PassedBetween(clientId, 0, now) < MaxAnonymous
                /\ requestCache' = r.cache
                /\ IF ~r.allowed
                   THEN /\ chat' = answer(429)
                        /\ UNCHANGED passed
                   ELSE /\ passed' = [passed EXCEPT ![clientId][now] = @ + 1]
                        /\ chat' = IF apiKey
                                   THEN [answer(0) EXCEPT !.pc = "calling"]
                                   ELSE answer(500)
    /\ UNCHANGED now
    /\ UNCHANGED exceptChat

\* one round of the retry loop
ChatAttempt(outcome) ==
    /\ chat.pc = "calling"
    /\ LET attempt == Len(chat.outcomes)
           tried == [chat EXCEPT !.outcomes = Append(@, outcome)]
       IN  chat' =
             IF outcome \in {"text", "nocandidates"}
             THEN [tried EXCEPT !.pc = "done", !.status = 200]
             ELSE IF ShouldRetry(outcome)
             THEN LET waited == [tried EXCEPT
                                   !.backoffs = Append(@, Backoff(outcome, attempt))]
                  IN  IF attempt + 1 < MAX_ATTEMPTS
                      THEN waited
                      ELSE [waited EXCEPT !.pc = "done", !.status = 503]
             ELSE [tried EXCEPT !.pc = "done", !.status = UpstreamStatus(outcome)]
    /\ UNCHANGED <<now, requestCache, passed>>
    /\ UNCHANGED exceptChat

\* the timer's cleanupCache
ChatCleanup ==
    /\ cleanupCache(requestCache, now) # requestCache
    /\ requestCache' = cleanupCache(requestCache, now)
    /\ UNCHANGED <<now, passed, chat>>
    /\ UNCHANGED exceptChat

\* time passes
ChatTick ==
    /\ \E t \in Instants : t > now
    /\ now' = CHOOSE t \in Instants : t > now /\ \A u \in Instants : u > now => t <= u
    /\ UNCHANGED <<requestCache, passed, chat>>
    /\ UNCHANGED exceptChat

\* the handler alone, all requests arriving at one instant
NextChat ==
    \/ \E prompt \in Prompts, forwardedFor \in ForwardedFors, realIp \in RealIps,
          apiKey \in BOOLEAN : ChatPost(prompt, forwardedFor, realIp, apiKey)
    \/ \E outcome \in UpstreamOutcomes : ChatAttempt(outcome)

SpecChat == InitEmpty /\ [][NextChat]_vars

\* every upstream call settles
SpecChatFair ==
    SpecChat /\ WF_vars(\E outcome \in UpstreamOutcomes : ChatAttempt(outcome))

\* the limiter over time, on a server that has no API key: every request
\* is answered as soon as the limiter has decided
NextLimiter ==
    \/ \E prompt \in ShortPrompts, forwardedFor \in ForwardedFors, realIp \in RealIps :
          ChatPost(prompt, forwardedFor, realIp, FALSE)
    \/ ChatCleanup
    \/ ChatTick

SpecLimiter == InitEmpty /\ [][NextLimiter]_vars

----------------------------------------------------------------------------
(* Properties of the scorer *)

HasCoordinates(report) == ~IsNull(report.lat) /\ ~IsNull(report.lng)

\* other lies within the threshold of new and carries the same non-null type
SameTypeNearby(new, other) ==
    /\ HasCoordinates(new) /\ HasCoordinates(other)
    /\ calculateDistance(Val(new.lat), Val(new.lng), Val(other.lat), Val(other.lng))
          <= ADJACENT_THRESHOLD_M
    /\ ~IsNull(new.type) /\ new.type = other.type

\* the two predicates of the scorer hold of the pair
Matches(new, other) ==
    /\ areAdjacent(new, other)
    /\ ~hasSameIssueThrows(new, other)
    /\ hasSameIssue(new, other)

Evaluated(s) == scorers[s].pc # "query"

\* the scorer's query succeeded and returned exactly one report, of another
\* user, with the same type and nearby
CorroboratedByOne(s) ==
    /\ scorers[s].query = "ok"
    /\ Cardinality(scorers[s].fetched) = 1
    /\ \A o \in scorers[s].fetched :
          o.user_id # scorers[s].report.user_id /\ SameTypeNearby(scorers[s].report, o)

InvolvedUsers(s) ==
    {scorers[s].report.user_id} \cup {o.user_id : o \in scorers[s].fetched}

NoAwardFailed(s) == \A i \in AwardsOf(awards, s) : ~awards[i].storeError

\* C1: a report corroborated by one report of another user, 200 m away and of
\* the same type, with no store failure and both at credibility 0: the call
\* returns 2 and both users end at credibility 1.
C1_TwoUserMatchAwardsBoth ==
    \A s \in DOMAIN scorers :
        ( /\ scorers[s].pc = "done"
          /\ CorroboratedByOne(s)
          /\ NoAwardFailed(s)
          /\ \A s2 \in DOMAIN scorers \ {s} : scorers[s2].users = {} )
        => /\ scorers[s].result = 2
           /\ \A u \in InvolvedUsers(s) : profiles[u] = Some(1)

\* C2: when every stored report that matches the new one is the submitter's
\* own, the call returns 0 and starts no award: no user awards themselves.
C2_NoSelfAward ==
    \A s \in DOMAIN scorers :
        ( /\ Evaluated(s)
          /\ \A o \in QueryReportsExcluding(Range(reports), scorers[s].report.id) :
                Matches(scorers[s].report, o) => o.user_id = scorers[s].report.user_id )
        => /\ scorers[s].pc = "done"
           /\ scorers[s].result = 0
           /\ AwardsOf(awards, s) = {}

\* a finished call whose report is matched by a stored report of its own user
C2_Witness ==
    \E s \in DOMAIN scorers :
        /\ scorers[s].pc = "done" /\ scorers[s].query = "ok"
        /\ \E o \in scorers[s].fetched :
              Matches(scorers[s].report, o) /\ o.user_id = scorers[s].report.user_id
        /\ \A o \in QueryReportsExcluding(Range(reports), scorers[s].report.id) :
              Matches(scorers[s].report, o) => o.user_id = scorers[s].report.user_id

\* C3: a call on a report without lat or without lng has returned 0 at once
\* and starts no award, whatever the table holds.
C3_NoCoordinatesNoAward ==
    \A s \in DOMAIN scorers :
        ~HasCoordinates(scorers[s].report)
        => /\ scorers[s].pc = "done"
           /\ scorers[s].query = "none"
           /\ scorers[s].result = 0
           /\ AwardsOf(awards, s) = {}

\* a call on a report without coordinates while the table holds a report of
\* another user with the same issue
C3_Witness ==
    \E s \in DOMAIN scorers :
        /\ ~HasCoordinates(scorers[s].report)
        /\ scorers[s].pc = "done"
        /\ \E i \in DOMAIN reports :
              /\ reports[i].user_id # scorers[s].report.user_id
              /\ hasSameIssue(scorers[s].report, reports[i])

\* C4: for a corroborated report the batch runs to the end for every involved
\* user, a failing award stopping no other one, and the call returns the
\* number of awards that succeeded (1 when one of two fails).
C4_PartialFailureCounted ==
    \A s \in DOMAIN scorers :
        (scorers[s].pc = "done" /\ CorroboratedByOne(s))
        => /\ {awards[i].user : i \in AwardsOf(awards, s)} = InvolvedUsers(s)
           /\ \A i \in AwardsOf(awards, s) : awards[i].pc = "done"
           /\ scorers[s].result =
                 Cardinality({i \in AwardsOf(awards, s) : awards[i].ok})

\* C5: when the query for the other reports fails, the call returns 0
\* (it completes with a number, it does not throw) and starts no award.
C5_QueryFailureReturnsZero ==
    \A s \in DOMAIN scorers :
        scorers[s].query = "error"
        => /\ scorers[s].pc = "done"
           /\ scorers[s].result = 0
           /\ AwardsOf(awards, s) = {}

\* a call whose query failed while the table held a matching report of another user
C5_Witness ==
    \E s \in DOMAIN scorers :
        /\ scorers[s].query = "error"
        /\ scorers[s].pc = "done"
        /\ \E i \in DOMAIN reports :
              /\ reports[i].user_id # scorers[s].report.user_id
              /\ Matches(scorers[s].report, reports[i])

\* C6: two completed calls on the same report, each corroborated by another
\* user's report, with no store failure and nothing else awarding: every
\* involved user's credibility ends 2 higher (from 0: at 2).
C6_SecondCallAwardsAgain ==
    \A s1, s2 \in DOMAIN scorers :
        ( /\ s1 # s2
          /\ scorers[s1].report.id = scorers[s2].report.id
          /\ scorers[s1].pc = "done" /\ scorers[s2].pc = "done"
          /\ CorroboratedByOne(s1) /\ CorroboratedByOne(s2)
          /\ NoAwardFailed(s1) /\ NoAwardFailed(s2)
          /\ \A s3 \in DOMAIN scorers \ {s1, s2} : scorers[s3].users = {} )
        => \A u \in InvolvedUsers(s1) : profiles[u] = Some(2)

----------------------------------------------------------------------------
(* Properties of POST /api/reports *)

\* every call the handler has made belongs to a request already answered 201
\* for that report, and a request whose scorer had a query to wait for was
\* answered while that query was still outstanding
AnsweredWithoutWaiting ==
    /\ \A s \in DOMAIN scorers :
          scorers[s].post # 0
          => /\ posts[scorers[s].post].status = 201
             /\ posts[scorers[s].post].scorer = s
             /\ posts[scorers[s].post].row = scorers[s].report.id
    /\ \A p \in DOMAIN posts :
          posts[p].status = 201
          => /\ posts[p].scorer \in DOMAIN scorers
             /\ (TruthyNum(reports[posts[p].row].lat) /\ TruthyNum(reports[posts[p].row].lng)
                   => posts[p].scorerPending)

\* no step, a step of the scorer included, changes an answer once given
AnswerNeverChanges ==
    \A p \in DOMAIN posts : posts[p].status # 0 => posts'[p] = posts[p]

\* C7: POST answers 201 for an inserted report without waiting for
\* checkAndAwardCredibility, and neither the status nor the body of the answer
\* depends on what the scorer returns or on its failing.
C7_ResponseIndependentOfScorer ==
    [](AnsweredWithoutWaiting) /\ [][AnswerNeverChanges]_vars

\* a request answered 201 whose scorer then met a failing query
C7_Witness ==
    \E p \in DOMAIN posts :
        /\ posts[p].status = 201
        /\ posts[p].scorerPending
        /\ scorers[posts[p].scorer].query = "error"

----------------------------------------------------------------------------
(* Properties of awardCredibilityPoint *)

\* C8: an award whose read found no profile row and whose own store calls met
\* no failure returns true, having written credibility 1, and the row exists
\* afterwards; an award returns false only after a store failure.
C8_MissingProfileIsCreated ==
    \A t \in DOMAIN awards :
        awards[t].pc = "done"
        => /\ (~awards[t].ok => awards[t].storeError)
           /\ (awards[t].read = "ok" /\ IsNull(awards[t].profile) /\ ~awards[t].storeError)
                 => /\ awards[t].ok
                    /\ awards[t].newCredibility = 1
                    /\ ~IsNull(profiles[awards[t].user])
                    /\ Credibility(profiles[awards[t].user]) >= 1

\* an award that found no row, has returned true and left the row at credibility 1
C8_Witness ==
    \E t \in DOMAIN awards :
        /\ awards[t].pc = "done" /\ awards[t].ok
        /\ awards[t].read = "ok" /\ IsNull(awards[t].profile)
        /\ profiles[awards[t].user] = Some(1)

----------------------------------------------------------------------------
(* Properties of areAdjacent and hasSameIssue *)

PureDistance ==
    calculateDistance(Val(pure.report1.lat), Val(pure.report1.lng),
                      Val(pure.report2.lat), Val(pure.report2.lng))

\* C9: two reports that both carry coordinates are adjacent when their
\* distance is exactly 500 m and are not adjacent when it exceeds 500 m.
C9_InclusiveThreshold ==
    ( /\ pure.pc \in {"adjacent", "done"}
      /\ HasCoordinates(pure.report1) /\ HasCoordinates(pure.report2) )
    => /\ (PureDistance = ADJACENT_THRESHOLD_M => pure.adjacent)
       /\ (PureDistance > ADJACENT_THRESHOLD_M => ~pure.adjacent)

\* C10 as stated: with two non-null types, the empty string included,
\* hasSameIssue is true exactly when the types are equal (for reports that
\* carry a problem text, as every inserted report does).
C10_NonNullTypesDecide ==
    ( /\ pure.pc = "done"
      /\ ~IsNull(pure.report1.problem) /\ ~IsNull(pure.report2.problem)
      /\ ~IsNull(pure.report1.type) /\ ~IsNull(pure.report2.type) )
    => (pure.issue = "true" <=> pure.report1.type = pure.report2.type)

\* C10 as amended: with two non-null, non-empty types hasSameIssue returns
\* (it does not throw) and is true exactly when the types are equal, case
\* included, whatever the problem texts.
C10_NonEmptyTypesDecide ==
    ( /\ pure.pc = "done"
      /\ TruthyStr(pure.report1.type) /\ TruthyStr(pure.report2.type) )
    => /\ pure.issue \in {"true", "false"}
       /\ (pure.issue = "true" <=> pure.report1.type = pure.report2.type)

\* equal non-empty types with different problem texts: the same issue
C10_Witness ==
    /\ pure.pc = "done"
    /\ TruthyStr(pure.report1.type) /\ pure.report1.type = pure.report2.type
    /\ ~IsNull(pure.report1.problem) /\ ~IsNull(pure.report2.problem)
    /\ ToLowerCase(Trim(Val(pure.report1.problem)))
          # ToLowerCase(Trim(Val(pure.report2.problem)))
    /\ pure.issue = "true"

\* C11: when either report lacks a type (and both carry a problem text),
\* hasSameIssue returns, and returns true exactly when the two problem texts
\* are equal after trimming and lower-casing.
C11_ProblemTextFallback ==
    ( /\ pure.pc = "done"
      /\ (IsNull(pure.report1.type) \/ IsNull(pure.report2.type))
      /\ ~IsNull(pure.report1.problem) /\ ~IsNull(pure.report2.problem) )
    => /\ pure.issue \in {"true", "false"}
       /\ ( pure.issue = "true"
             <=> ToLowerCase(Trim(Val(pure.report1.problem)))
                    = ToLowerCase(Trim(Val(pure.report2.problem))) )

\* one report without a type, the other typed, problem texts that differ
\* only in case and surrounding spaces: the same issue
C11_Witness ==
    /\ pure.pc = "done"
    /\ IsNull(pure.report1.type) /\ TruthyStr(pure.report2.type)
    /\ ~IsNull(pure.report1.problem) /\ ~IsNull(pure.report2.problem)
    /\ pure.report1.problem # pure.report2.problem
    /\ pure.issue = "true"

\* C19: whatever the coordinate values, latitude 0 and longitude 0
\* included, two reports that carry coordinates within the threshold distance
\* are adjacent, and a new report that carries coordinates is not dropped by
\* the early exit of checkAndAwardCredibility.
C19_ZeroIsACoordinate ==
    ( pure.pc \in {"adjacent", "done"} /\ HasCoordinates(pure.report1) )
    => /\ ( ( /\ HasCoordinates(pure.report2)
              /\ PureDistance <= ADJACENT_THRESHOLD_M )
            => pure.adjacent )
       /\ ~checkAndAwardCredibility(pure.report1, TRUE, {pure.report2}).skipped

\* C25: areAdjacent and hasSameIssue give the same answer (the same
\* exception included) for a pair of reports in either order.
C25_Symmetric ==
    pure.pc \in {"done", "scored"}
    => /\ pure.adjacent = pure.adjacentBack
       /\ pure.issue = pure.issueBack

\* a typed and an untyped report, adjacent and of the same issue in both orders
C25_Witness ==
    /\ pure.pc = "done"
    /\ IsNull(pure.report1.type) /\ TruthyStr(pure.report2.type)
    /\ pure.report1.lat # pure.report2.lat
    /\ pure.adjacent /\ pure.adjacentBack
    /\ pure.issue = "true" /\ pure.issueBack = "true"

C22_NoCoordinatesNoMatch ==
    ( pure.pc \in {"adjacent", "done", "scored"}
      /\ (IsNull(pure.report2.lat) \/ IsNull(pure.report2.lng)) )
    => /\ ~pure.adjacent /\ ~pure.adjacentBack
       /\ pure.report2 \notin pure.adjacentReports
       /\ pure.report2.user_id \notin pure.users

\* the stored report lacks its latitude only and has the new report's type;
\* the query returned it and the call finished
C22_Witness ==
    /\ pure.pc = "scored"
    /\ pure.query = "ok"
    /\ IsNull(pure.report2.lat) /\ ~IsNull(pure.report2.lng)
    /\ TruthyNum(pure.report1.lat) /\ TruthyNum(pure.report1.lng)
    /\ pure.issue = "true"
    /\ ~pure.adjacent

----------------------------------------------------------------------------
(* Further properties of the scorer *)

\* the call of scorer s found no other report in the store: its query
\* succeeded and returned no row, or it took the early exit while the table
\* held its own report alone
NoOtherReports(s) ==
    \/ scorers[s].query = "ok" /\ scorers[s].fetched = {}
    \/ scorers[s].query = "none" /\ scorers[s].pc = "done" /\ Len(reports) = 1

\* C12: a call of checkAndAwardCredibility that finds no other report in
\* the store returns 0, whatever the fields of the new report, and starts no
\* award (so nothing is written).
C12_EmptyStoreReturnsZero ==
    \A s \in DOMAIN scorers :
        NoOtherReports(s)
        => /\ scorers[s].pc = "done"
           /\ scorers[s].result = 0
           /\ scorers[s].users = {}
           /\ AwardsOf(awards, s) = {}

\* a report with coordinates, type and problem text, alone in the store,
\* has been evaluated
C12_Witness ==
    \E s \in DOMAIN scorers :
        /\ scorers[s].query = "ok" /\ scorers[s].fetched = {}
        /\ TruthyNum(scorers[s].report.lat) /\ TruthyNum(scorers[s].report.lng)
        /\ TruthyStr(scorers[s].report.type)
        /\ scorers[s].pc = "done" /\ scorers[s].result = 0

\* C15: findAdjacentReportsWithSameIssue(r), its query answered, returns
\* exactly the reports stored at that moment, other than r, that are
\* adjacent to r and have the same issue.
C15_FindReturnsExactlyTheMatches ==
    \A s \in DOMAIN scorers :
        scorers[s].query = "ok"
        => scorers[s].adjacentReports
              = {o \in scorers[s].fetched :
                    o.id # scorers[s].report.id /\ Matches(scorers[s].report, o)}

\* the submitter of the new report and the submitters of the reports that
\* match it, among those the query of scorer s returned
DistinctUsers(s) ==
    {scorers[s].report.user_id}
    \cup {o.user_id : o \in {o \in scorers[s].fetched : Matches(scorers[s].report, o)}}

\* C18: a finished call whose new report and matching reports come from at
\* least two distinct users has invoked awardCredibilityPoint exactly once
\* for each of these users and for nobody else, and has returned the number
\* of invocations that returned true, between 0 and the number of users.
C18_OneAwardPerDistinctUser ==
    \A s \in DOMAIN scorers :
        ( /\ scorers[s].pc = "done" /\ scorers[s].query = "ok"
          /\ Cardinality(DistinctUsers(s)) >= 2 )
        => /\ \A u \in DistinctUsers(s) :
                 Cardinality({i \in AwardsOf(awards, s) : awards[i].user = u}) = 1
           /\ \A i \in AwardsOf(awards, s) : awards[i].user \in DistinctUsers(s)
           /\ scorers[s].result
                 = Cardinality({i \in AwardsOf(awards, s) : awards[i].ok})
           /\ scorers[s].result \in 0..Cardinality(DistinctUsers(s))

\* the calls of checkAndAwardCredibility made by request p
CallsOf(p) == {s \in DOMAIN scorers : scorers[s].post = p}

\* a request that was answered 400 or 500 inserted no row and made no call;
\* one whose insert succeeded has made no call before the row is stored and
\* exactly one, for the stored row, once it is answered
OneCallPerInsert ==
    \A p \in DOMAIN posts :
        /\ posts[p].status \in {400, 500} => posts[p].row = 0 /\ CallsOf(p) = {}
        /\ posts[p].pc = "inserted" => posts[p].row \in DOMAIN reports /\ CallsOf(p) = {}
        /\ posts[p].status = 201
              => /\ posts[p].row \in DOMAIN reports
                 /\ Cardinality(CallsOf(p)) = 1
                 /\ \A s \in CallsOf(p) : scorers[s].report = reports[posts[p].row]
        /\ \A q \in DOMAIN posts : (q # p /\ posts[p].row # 0) => posts[q].row # posts[p].row

\* C20: every report a POST inserts triggers exactly one call of
\* checkAndAwardCredibility, made after the insert, for the inserted row; a
\* request answered 400 or whose insert failed triggers none.
C20_OneScorerPerInsertedReport ==
    /\ []OneCallPerInsert
    /\ \A p \in 1..MaxPosts :
          (p \in DOMAIN posts /\ posts[p].pc = "inserted")
             ~> (p \in DOMAIN posts /\ Cardinality(CallsOf(p)) = 1)

\* one request was refused with 400 and made no call, another inserted its
\* row and made its one call
C20_Witness ==
    \E p, q \in DOMAIN posts :
        /\ posts[p].status = 400 /\ CallsOf(p) = {}
        /\ posts[q].status = 201 /\ Cardinality(CallsOf(q)) = 1
        /\ Len(reports) = 1

\* C23: a step of checkAndAwardCredibility inserts, updates and deletes no
\* report row and changes no credibility itself, and the users it calls
\* awardCredibilityPoint for are the submitter of the new report and the
\* submitters of the reports that match it, nobody else.
C23_ScorerFrame ==
    /\ [][ scorers' # scorers => (reports' = reports /\ profiles' = profiles) ]_vars
    /\ [](\A s \in DOMAIN scorers :
             /\ scorers[s].users \subseteq DistinctUsers(s)
             /\ \A i \in AwardsOf(awards, s) : awards[i].user \in DistinctUsers(s))

\* a call has finished whose query returned a report of another user that
\* does not match the new report
C23_Witness ==
    \E s \in DOMAIN scorers :
        /\ scorers[s].pc = "done" /\ scorers[s].query = "ok"
        /\ \E o \in scorers[s].fetched :
              /\ o.user_id # scorers[s].report.user_id
              /\ ~Matches(scorers[s].report, o)
              /\ o.user_id \notin scorers[s].users

\* a step of awardCredibilityPoint writes the row of its own user only and no
\* report row
AwardWritesOwnRowOnly ==
    [][ /\ reports' = reports
        /\ \A u \in Users :
              profiles'[u] # profiles[u]
              => \E t \in DOMAIN awards :
                    /\ awards[t].user = u
                    /\ awards[t].pc \in {"write", "upsert"}
                    /\ awards'[t].pc # awards[t].pc ]_vars

----------------------------------------------------------------------------
(* Properties of concurrent awards *)

\* awards t1 and t2 are the only calls for their user, both found the same
\* stored value and both returned true
BothReadTheSame(t1, t2) ==
    /\ t1 # t2
    /\ awards[t1].user = awards[t2].user
    /\ \A t \in DOMAIN awards : awards[t].user = awards[t1].user => t \in {t1, t2}
    /\ awards[t1].read = "ok" /\ awards[t2].read = "ok"
    /\ awards[t1].profile = awards[t2].profile
    /\ awards[t1].pc = "done" /\ awards[t1].ok
    /\ awards[t2].pc = "done" /\ awards[t2].ok

C24_NonNegativeAndZeroDefault ==
    /\ \A u \in Users : IsNull(profiles[u]) \/ Val(profiles[u]) \in Nat
    /\ \A t \in DOMAIN awards :
          (awards[t].read = "ok" /\ IsNull(awards[t].profile))
             => awards[t].newCredibility = 1
    /\ listing.status = 200
          => \A i \in DOMAIN listing.reports :
                LET u == listing.reports[i].reported_by IN
                /\ listing.reports[i].user_credibility \in Nat
                /\ (IsNull(listing.profilesRead) \/ IsNull(Val(listing.profilesRead)[u]))
                      => listing.reports[i].user_credibility = 0
                /\ (~IsNull(listing.profilesRead) /\ ~IsNull(Val(listing.profilesRead)[u]))
                      => listing.reports[i].user_credibility
                            = Val(Val(listing.profilesRead)[u])

\* the listing was made when one user had no row and the other an awarded
\* credibility: it shows 0 and that credibility
C24_Witness ==
    /\ listing.status = 200 /\ ~IsNull(listing.profilesRead)
    /\ \E i, j \in DOMAIN listing.reports :
          /\ IsNull(Val(listing.profilesRead)[listing.reports[i].reported_by])
          /\ listing.reports[i].user_credibility = 0
          /\ listing.reports[j].user_credibility >= 1
    /\ \E t \in DOMAIN awards :
          awards[t].pc = "done" /\ awards[t].ok /\ IsNull(awards[t].profile)

----------------------------------------------------------------------------
(* Properties of the notification check *)

\* the stored times of user u hold an enabled one at the time the request checks
HasMatchingEnabledTime(u) ==
    /\ ~IsNull(notification_times[u])
    /\ \E i \in DOMAIN Val(notification_times[u]) :
          LET time == Val(notification_times[u])[i]
          IN  /\ time.enabled # Some(FALSE)
              /\ check.currentHour = Some(time.hour)
              /\ check.currentMinute = Some(time.minute)

\* the handler obtained the e-mail address of user u
EmailKnown(u) ==
    \E i \in DOMAIN check.lookups : check.userIds[i] = u /\ check.lookups[i]

C14_TestModeSendsRegardless ==
    ( check.testMode /\ check.pc = "done" /\ check.status = 200 )
    => \A u \in Users :
          ( HasMatchingEnabledTime(u) /\ EmailKnown(u) )
          => /\ Cardinality({i \in DOMAIN check.emailResults :
                               check.emailResults[i].user_id = u}) = 1
             /\ \A i \in DOMAIN check.emailResults :
                   check.emailResults[i].aqi
                      = IF IsNull(check.airQualityData) THEN 150
                        ELSE Val(check.airQualityData)
             /\ check.emailsSent
                   = Cardinality({i \in DOMAIN check.emailResults :
                                    check.emailResults[i].success})

\* with test=true and no air-quality data, a due user was sent the e-mail
\* with AQI 150
C14_Witness ==
    /\ check.testMode /\ check.pc = "done"
    /\ IsNull(check.airQualityData)
    /\ \E i \in DOMAIN check.emailResults :
          /\ check.emailResults[i].success
          /\ check.emailResults[i].aqi = 150
          /\ HasMatchingEnabledTime(check.emailResults[i].user_id)

----------------------------------------------------------------------------
(* Properties of the chat rate limiter *)

\* the requests of one identifier let through at instants of a half-open
\* interval of 60 seconds that starts at the instant lo
PassedInInterval(id, lo) ==
    SumOver(passed[id], {t \in Instants : lo <= t /\ t < lo + RATE_WINDOW_MS})

PassedInWindow(id) ==
    LET limit == Val(requestCache[id]) IN
    PassedBetween(id, limit.resetTime - RATE_WINDOW_MS, limit.resetTime)

----------------------------------------------------------------------------
(* Properties of the chat retry loop *)

Retried == {"429", "network"}

\* every round but the last one of the request ended in a retry, each after
\* its backoff of 1000 ms, then 2000 ms
RetriedBefore(n) ==
    \A i \in 1..n :
        /\ chat.outcomes[i] \in Retried
        /\ i <= Len(chat.backoffs)
        /\ i < MAX_ATTEMPTS => chat.backoffs[i] = Pow2(i - 1) * 1000

\* C30: a chat POST that has passed validation and the limiter makes at most
\* 3 upstream attempts; a 429 or a rejected fetch is followed by a backoff and,
\* before the third attempt, by another attempt; any other upstream error
\* status ends the request with that status; three failed attempts end it
\* with 503; and the request always comes to a response.
C30_AtMostThreeAttemptsThenAnswer ==
    /\ [](/\ Len(chat.outcomes) <= MAX_ATTEMPTS
          /\ chat.pc = "calling" =>
                /\ Len(chat.outcomes) < MAX_ATTEMPTS
                /\ RetriedBefore(Len(chat.outcomes))
          /\ chat.pc = "done" /\ chat.outcomes # <<>> =>
                LET n == Len(chat.outcomes)
                    last == chat.outcomes[n]
                IN  /\ RetriedBefore(n - 1)
                    /\ last \in {"text", "nocandidates"} => chat.status = 200
                    /\ last = "500" => chat.status = 500
                    /\ last \in Retried => n = MAX_ATTEMPTS /\ chat.status = 503
                    /\ chat.status = 503 => n = MAX_ATTEMPTS /\ last \in Retried)
    /\ (chat.pc = "calling") ~> (chat.pc = "done")

\* three attempts failed, by a 429, a rejected fetch and a 429, and the
\* request was answered 503
C30_Witness ==
    /\ chat.pc = "done"
    /\ chat.outcomes = <<"429", "network", "429">>
    /\ chat.status = 503

----------------------------------------------------------------------------
(* Properties of /api/notifications *)

\* the stored array of the user has an entry for the hour and minute
HasSlot(user_id, hour, minute) ==
    HasDuplicate(ExistingTimes(notification_times, user_id), hour, minute)

\* C27: no user's stored notification_times has two entries with the same
\* hour and minute, and every stored entry has hour in 0..23 and minute in 0..59
C27_NoDuplicateSlotsInRange ==
    \A u \in Users :
        LET times == ExistingTimes(notification_times, u) IN
        \A i \in 1..Len(times) :
            /\ times[i].hour \in 0..23
            /\ times[i].minute \in 0..59
            /\ \A j \in 1..Len(times) :
                  i # j => ~(times[i].hour = times[j].hour /\ times[i].minute = times[j].minute)

\* the request was a POST that was answered 201
Created(r) ==
    timeReqs[r].kind = "POST" /\ timeReqs[r].pc = "done" /\ timeReqs[r].status = 201

\* C28: when two POST requests for one user with different times have both
\* been answered 201, and nothing but POSTs has been asked, the user's stored
\* notification_times has both times
C28_BothCreatedTimesStored ==
    \A r1, r2 \in DOMAIN timeReqs :
        (/\ \A r \in DOMAIN timeReqs : timeReqs[r].kind = "POST"
         /\ Created(r1) /\ Created(r2)
         /\ timeReqs[r1].body.user_id = timeReqs[r2].body.user_id
         /\ <<timeReqs[r1].body.hour, timeReqs[r1].body.minute>>
               # <<timeReqs[r2].body.hour, timeReqs[r2].body.minute>>)
        => /\ HasSlot(Val(timeReqs[r1].body.user_id), Val(timeReqs[r1].body.hour),
                      Val(timeReqs[r1].body.minute))
           /\ HasSlot(Val(timeReqs[r2].body.user_id), Val(timeReqs[r2].body.hour),
                      Val(timeReqs[r2].body.minute))

----------------------------------------------------------------------------
(* Properties of the weather cache *)

\* C29: a response served from the cache was stored under the request's key
\* less than 5 minutes before it is served; every entry holds the data of a
\* fetch that succeeded for its own key, stored no later than now; and a
\* request whose fetch fails leaves the cache as it is.
C29_CacheServesOnlyFresh ==
    /\ [](/\ weather.last.fromCache =>
                /\ weather.last.status = 200
                /\ weather.last.at - weather.last.timestamp < CACHE_DURATION
                /\ weather.last.at - weather.last.timestamp >= 0
          /\ \A k \in CacheKeys :
                ~IsNull(weatherCache[k]) =>
                    /\ Val(weatherCache[k]).data = k
                    /\ Val(weatherCache[k]).timestamp <= now)
    /\ [][weather'.last # weather.last /\ weather'.last.fromCache =>
            /\ ~IsNull(weatherCache[weather'.last.key])
            /\ Val(weatherCache[weather'.last.key]).timestamp = weather'.last.timestamp
            /\ weatherCache' = weatherCache]_vars
    /\ [][weather'.last # weather.last /\ weather'.last.status = 500 =>
            weatherCache' = weatherCache]_vars

\* an entry stored at the start is served in the last millisecond before it
\* is five minutes old
C29_Witness ==
    /\ weather.last.fromCache
    /\ weather.last.timestamp = 0
    /\ weather.last.at = CACHE_DURATION - 1

====
